---------------------------- MODULE Spec2Model ----------------------------
(***************************************************************************)
(* PCard expenditure pipeline: clean_data.py (Dataset, __main__),          *)
(* profiles.py (Profile, __main__) and clustering.py (__main__).           *)
(*                                                                         *)
(* Text (column labels, cell values, file names, profile keys) is a        *)
(* sequence of one-character strings, so that the character-set, substring *)
(* and case operations of the code are computed, not assumed.  A missing   *)
(* cell (pandas NaN) is the value NaN below, which is no text.             *)
(***************************************************************************)
EXTENDS Integers, Sequences, FiniteSets, TLC

VARIABLES
    pc,             \* position in the three scripts, run one after the other
    files,          \* the raw_data folder: <<[name, df]>>, the xls reports
    divisions_map,  \* divisions_map.csv: <<[from, to]>>
    i,              \* number of reports the per-file loop has finished
    df,             \* dataset.df of the report being processed
    output_df,      \* the unified accumulator / the table in the pickle
    todo,           \* profiles.py: divisions still to be profiled
    division_profiles, \* profiles.py: list of profile dicts
    profile_df,     \* profiles.pickle as read by clustering.py
    cluster_data,   \* clustering.py: the selected feature columns
    fit_input       \* clustering.py: the matrix given to clusterer.fit

vars == <<pc, files, divisions_map, i, df, output_df, todo,
          division_profiles, profile_df, cluster_data, fit_input>>

(***************************************************************************)
(* Text helpers (Python str / set semantics).                              *)
(***************************************************************************)
NaN == <<"NaN">>

isna(c) == c = NaN

UpperChars == <<"A","B","C","D","E","F","G","H","I","J","K","L","M",
                "N","O","P","Q","R","S","T","U","V","W","X","Y","Z">>

LowerChars == <<"a","b","c","d","e","f","g","h","i","j","k","l","m",
                "n","o","p","q","r","s","t","u","v","w","x","y","z">>

IsUpper(c) == \E k \in DOMAIN UpperChars : UpperChars[k] = c

IsLower(c) == \E k \in DOMAIN LowerChars : LowerChars[k] = c

LowerChar(c) ==
    IF IsUpper(c)
    THEN LowerChars[CHOOSE k \in DOMAIN UpperChars : UpperChars[k] = c]
    ELSE c

UpperChar(c) ==
    IF IsLower(c)
    THEN UpperChars[CHOOSE k \in DOMAIN LowerChars : LowerChars[k] = c]
    ELSE c

\* str.lower()
Lower(s) == [k \in DOMAIN s |-> LowerChar(s[k])]

\* sub in s
Contains(sub, s) ==
    \E k \in 0..(Len(s) - Len(sub)) : SubSeq(s, k + 1, k + Len(sub)) = sub

\* set(s)
CharSet(s) == {s[k] : k \in DOMAIN s}

\* str.title(): a cased character is upper-cased after an uncased one (or at
\* the start) and lower-cased after a cased one.
Title(s) ==
    [k \in DOMAIN s |->
        IF k > 1 /\ (IsUpper(s[k - 1]) \/ IsLower(s[k - 1]))
        THEN LowerChar(s[k])
        ELSE UpperChar(s[k])]

RECURSIVE LStrip(_)
LStrip(s) == IF s # <<>> /\ Head(s) = " " THEN LStrip(Tail(s)) ELSE s

RECURSIVE RStrip(_)
RStrip(s) ==
    IF s # <<>> /\ s[Len(s)] = " " THEN RStrip(SubSeq(s, 1, Len(s) - 1)) ELSE s

\* str.strip()
Strip(s) == RStrip(LStrip(s))

Indices(n) == [k \in 1..n |-> k]

\* positions of a label in a column index, ascending
Positions(cols, name) ==
    SelectSeq(Indices(Len(cols)), LAMBDA j : cols[j] = name)

Pick(row, idxs) == [k \in DOMAIN idxs |-> row[idxs[k]]]

(***************************************************************************)
(* Dataset.clean_data: column reconciliation.                              *)
(***************************************************************************)
\* faulty variant: any label containing 'un' counts as unnamed
Unnamed_Short == <<"u","n">>

Unnamed == <<"u","n","n","a","m","e","d">>

LongText == <<"L","o","n","g"," ","T","e","x","t">>

ExpTypeDesc == <<"E","x","p"," ","T","y","p","e"," ","D","e","s","c">>

Division == <<"D","i","v","i","s","i","o","n">>

BatchTransactionID ==
    <<"B","a","t","c","h","-","T","r","a","n","s","a","c","t","i","o","n"," ","I","D">>

TransactionDate ==
    <<"T","r","a","n","s","a","c","t","i","o","n"," ","D","a","t","e">>

CardPostingDt == <<"C","a","r","d"," ","P","o","s","t","i","n","g"," ","D","t">>

MerchantName == <<"M","e","r","c","h","a","n","t"," ","N","a","m","e">>

TransactionAmt ==
    <<"T","r","a","n","s","a","c","t","i","o","n"," ","A","m","t",".">>

TransactionCurrency ==
    <<"T","r","a","n","s","a","c","t","i","o","n"," ","C","u","r","r","e","n","c","y">>

OriginalAmount ==
    <<"O","r","i","g","i","n","a","l"," ","A","m","o","u","n","t">>

OriginalCurrency ==
    <<"O","r","i","g","i","n","a","l"," ","C","u","r","r","e","n","c","y">>

GLAccount == <<"G","/","L"," ","A","c","c","o","u","n","t">>

GLAccountDescription ==
    <<"G","/","L"," ","A","c","c","o","u","n","t"," ","D","e","s","c","r","i","p","t","i","o","n">>

CostCentre ==
    <<"C","o","s","t"," ","C","e","n","t","r","e"," ","/"," ","W","B","S"," ","E","l","e","m","e","n","t">>

CostCentreDescription ==
    <<"C","o","s","t"," ","C","e","n","t","r","e"," ","/"," ","W","B","S"," ","E","l","e","m","e","n","t"," ","D","e","s","c","r","i","p","t","i","o","n">>

MerchantType == <<"M","e","r","c","h","a","n","t"," ","T","y","p","e">>

MerchantTypeDescription ==
    <<"M","e","r","c","h","a","n","t"," ","T","y","p","e"," ","D","e","s","c","r","i","p","t","i","o","n">>

Purpose == <<"P","u","r","p","o","s","e">>

Source == <<"S","o","u","r","c","e">>

\* self.column_names
column_names ==
    <<Division, BatchTransactionID, TransactionDate, CardPostingDt,
      MerchantName, TransactionAmt, TransactionCurrency, OriginalAmount,
      OriginalCurrency, GLAccount, GLAccountDescription, CostCentre,
      CostCentreDescription, MerchantType, MerchantTypeDescription, Purpose>>

IsCanonical(label) == \E k \in DOMAIN column_names : column_names[k] = label

\* len(set(name) & set(search_value))
num_letters_matched(name, search_value) ==
    Cardinality(CharSet(name) \cap CharSet(search_value))

\* faulty variant: a tie replaces the best match found so far
BetterMatch_OrEqual(num, match_count) == num >= match_count

\* one turn of the loop of __closest_match: the comparison is strict
BetterMatch(num, match_count) == num > match_count

RECURSIVE closest_match_loop(_, _, _, _, _)
closest_match_loop(search_value, names, k, match_count, best_match) ==
    IF k > Len(names) THEN best_match
    ELSE LET n == num_letters_matched(names[k], search_value) IN
         IF BetterMatch(n, match_count)
         THEN closest_match_loop(search_value, names, k + 1, n, names[k])
         ELSE closest_match_loop(search_value, names, k + 1, match_count, best_match)

\* Dataset.__closest_match
closest_match(search_value, names) ==
    closest_match_loop(search_value, names, 1, 0, names[1])

\* df.drop(labels=unnamed_columns, axis=1)
DropUnnamed(t) ==
    LET keep == SelectSeq(Indices(Len(t.columns)),
                    LAMBDA j : ~Contains(Unnamed, Lower(t.columns[j])))
    IN [columns |-> Pick(t.columns, keep),
        rows |-> [r \in DOMAIN t.rows |-> Pick(t.rows[r], keep)]]

\* faulty variant: the rename does nothing when the target label is present
RenameLabel_KeepIfPresent(cols, old, new) ==
    IF \E j \in DOMAIN cols : cols[j] = new THEN cols
    ELSE [j \in DOMAIN cols |-> IF cols[j] = old THEN new ELSE cols[j]]

\* df.rename(columns={old: new}): every column labelled old is relabelled,
\* whether or not a column labelled new exists already
RenameLabel(cols, old, new) ==
    [j \in DOMAIN cols |-> IF cols[j] = old THEN new ELSE cols[j]]

\* rename 'Long Text' and 'Exp Type Desc'
ExactRenames(cols) ==
    [j \in DOMAIN cols |->
        IF cols[j] = LongText \/ cols[j] = ExpTypeDesc
        THEN GLAccountDescription ELSE cols[j]]

\* the loop over the column index as it was when the loop started
RECURSIVE MatchRenames(_, _, _)
MatchRenames(cols, orig, k) ==
    IF k > Len(orig) THEN cols
    ELSE IF ~IsCanonical(orig[k])
         THEN MatchRenames(
                  RenameLabel(cols, orig[k], closest_match(orig[k], column_names)),
                  orig, k + 1)
         ELSE MatchRenames(cols, orig, k + 1)

\* columns after the drop and both rename steps
RenamedColumns(raw) ==
    LET c == ExactRenames(DropUnnamed(raw).columns) IN MatchRenames(c, c, 1)

\* position (0-based in the code) that the 'Transaction Currency' repair writes
RepairIndex == 6

\* if 'Transaction Currency' not in columns: columns.values[6] = ...
NeedsRepair(cols) == Positions(cols, TransactionCurrency) = <<>>

RepairCurrency(cols) ==
    IF NeedsRepair(cols)
    THEN [j \in DOMAIN cols |->
            IF j = RepairIndex + 1 THEN TransactionCurrency ELSE cols[j]]
    ELSE cols

\* df[self.column_names]: for each canonical name, in canonical order, every
\* column that carries it
RECURSIVE SelectIndices(_, _)
SelectIndices(cols, k) ==
    IF k > Len(column_names) THEN <<>>
    ELSE Positions(cols, column_names[k]) \o SelectIndices(cols, k + 1)

MissingCanonical(cols) ==
    \E k \in DOMAIN column_names : Positions(cols, column_names[k]) = <<>>

\* lines 52-95: [err, columns, rows]
Reconcile(raw) ==
    LET d    == DropUnnamed(raw)
        c    == RenamedColumns(raw)
        e    == RepairCurrency(c)
        idxs == SelectIndices(e, 1)
    IN  IF NeedsRepair(c) /\ Len(c) < RepairIndex + 1
        THEN [err |-> "IndexError", columns |-> c, rows |-> d.rows]
        ELSE IF MissingCanonical(e)
        THEN [err |-> "KeyError", columns |-> e, rows |-> d.rows]
        ELSE [err |-> "", columns |-> Pick(e, idxs),
              rows |-> [r \in DOMAIN d.rows |-> Pick(d.rows[r], idxs)]]


(***************************************************************************)
(* Dataset.clean_data: rows and values.                                    *)
(***************************************************************************)
MISSING == <<"M","I","S","S","I","N","G">>

EmptyText == <<>>

Unique(cols, name) == Len(Positions(cols, name)) = 1

ColIdx(cols, name) == Positions(cols, name)[1]

\* faulty variant: the row is dropped when either of the two is missing
KeepRow_Either(division, batch_id) == ~(isna(division) \/ isna(batch_id))

\* the row is kept unless Division and Batch-Transaction ID are both missing
KeepRow(division, batch_id) == ~(isna(division) /\ isna(batch_id))

\* df[~(df['Division'].isna() & df['Batch-Transaction ID'].isna())]
DropSubtotals(cols, rows) ==
    SelectSeq(rows, LAMBDA r : KeepRow(r[ColIdx(cols, Division)],
                                       r[ColIdx(cols, BatchTransactionID)]))

\* df.loc[df[name].isna(), name] = value
FillMissing(cols, rows, name, value) ==
    [r \in DOMAIN rows |->
        [rows[r] EXCEPT ![ColIdx(cols, name)] = IF isna(@) THEN value ELSE @]]

\* df['Transaction Date'].fillna(df['Card Posting Dt'], inplace=True); with
\* two 'Transaction Date' columns the fill acts on a temporary frame only
FillTransactionDate(cols, rows) ==
    IF ~Unique(cols, TransactionDate) THEN rows
    ELSE [r \in DOMAIN rows |->
            [rows[r] EXCEPT ![ColIdx(cols, TransactionDate)] =
                IF isna(@) THEN rows[r][ColIdx(cols, CardPostingDt)] ELSE @]]

\* the columns assigned 'MISSING' when absent, in the order of the loop
MissingDefaultColumns ==
    <<Division, CostCentre, CostCentreDescription, MerchantType>>

RECURSIVE FillMissingColumns(_, _, _)
FillMissingColumns(cols, rows, k) ==
    IF k > Len(MissingDefaultColumns) THEN rows
    ELSE FillMissingColumns(
             cols, FillMissing(cols, rows, MissingDefaultColumns[k], MISSING), k + 1)

\* lambda x: x.title().strip()
NormalizeDivision(x) == Strip(Title(x))

\* columns that the row steps address by label through a boolean row mask or
\* as a fill value: a duplicated label makes the step raise
RowStepColumns ==
    {Division, BatchTransactionID, Purpose, CardPostingDt, CostCentre,
     CostCentreDescription, MerchantType}

\* lines 97-115 on a reconciled table: [err, columns, rows]
ImputeRows(cols, rows0, file_name) ==
    IF \E c \in RowStepColumns : ~Unique(cols, c)
    THEN [err |-> "ValueError", columns |-> cols, rows |-> rows0]
    ELSE
    LET r1 == DropSubtotals(cols, rows0)
        r2 == FillMissing(cols, r1, Purpose, EmptyText)
        r3 == FillTransactionDate(cols, r2)
        r4 == FillMissingColumns(cols, r3, 1)
        r5 == [r \in DOMAIN r4 |-> Append(r4[r], file_name)]
        r6 == [r \in DOMAIN r5 |->
                 [r5[r] EXCEPT ![ColIdx(cols, Division)] = NormalizeDivision(@)]]
    IN [err |-> "", columns |-> Append(cols, Source), rows |-> r6]

\* Dataset.clean_data
clean_data(raw, file_name) ==
    LET rec == Reconcile(raw) IN
    IF rec.err # "" THEN rec ELSE ImputeRows(rec.columns, rec.rows, file_name)

RECURSIVE SumSeq(_)
SumSeq(s) == IF s = <<>> THEN 0 ELSE Head(s) + SumSeq(Tail(s))

\* df.isna().sum(): per-column counts of missing cells
nan_counts(t) ==
    [j \in DOMAIN t.columns |->
        Len(SelectSeq(t.rows, LAMBDA r : isna(r[j])))]

\* the column count validate_data demands
ExpectedColumns == Len(column_names) + 1

\* faulty variant: the column count is not asserted
validate_data_NansOnly(t) == SumSeq(nan_counts(t)) = 0

\* Dataset.validate_data: TRUE when both assertions pass
validate_data(t) ==
    /\ SumSeq(nan_counts(t)) = 0
    /\ Len(t.columns) = ExpectedColumns

(***************************************************************************)
(* clean_data.py __main__ after the per-file loop.                         *)
(***************************************************************************)
Digits == <<"0","1","2","3","4","5","6","7","8","9">>

IsDigit(c) == \E k \in DOMAIN Digits : Digits[k] = c

DigitVal(c) == (CHOOSE k \in DOMAIN Digits : Digits[k] = c) - 1

\* a Timestamp cell is written YYYY-MM (the code reads no finer part)
IsDate(x) ==
    /\ Len(x) = 7
    /\ x[5] = "-"
    /\ \A k \in {1, 2, 3, 4, 6, 7} : IsDigit(x[k])

\* x.year
YearOf(x) ==
    1000 * DigitVal(x[1]) + 100 * DigitVal(x[2]) + 10 * DigitVal(x[3]) + DigitVal(x[4])

\* x.month
MonthOf(x) == 10 * DigitVal(x[6]) + DigitVal(x[7])

\* x.strftime('%Y-%m')
YearMonthOf(x) == SubSeq(x, 1, 4) \o <<"-">> \o SubSeq(x, 6, 7)

\* pd.PeriodIndex(..., freq='Q')
QuarterOf(x) ==
    SubSeq(x, 1, 4) \o <<"Q", Digits[((MonthOf(x) - 1) \div 3) + 2]>>

\* the year whose rows are removed
ExcludedYear == 2010

\* faulty variant: only later years are kept
KeepYear_After(year) == year > ExcludedYear

KeepYear(year) == year # ExcludedYear

\* the dict built from divisions_map.csv: a later row overrides an earlier one
RECURSIVE divisions_map_dict(_, _)
divisions_map_dict(m, k) ==
    IF k = 0 THEN [d \in {} |-> d]
    ELSE LET rest == divisions_map_dict(m, k - 1) IN
         IF m[k].from # m[k].to
         THEN [d \in DOMAIN rest \cup {m[k].from} |->
                  IF d = m[k].from THEN m[k].to ELSE rest[d]]
         ELSE rest

\* faulty variant: a replaced value is looked up again
ReplaceDivision_Chained(x, d) ==
    IF x \in DOMAIN d THEN (IF d[x] \in DOMAIN d THEN d[d[x]] ELSE d[x]) ELSE x

\* Series.replace(dict): every value is looked up once
ReplaceDivision(x, d) == IF x \in DOMAIN d THEN d[x] ELSE x

\* character order of the texts that are sorted into categories
CharOrder ==
    <<" ", "-", ".", "/">> \o Digits \o UpperChars \o <<"_">> \o LowerChars

CharRank(c) ==
    IF \E k \in DOMAIN CharOrder : CharOrder[k] = c
    THEN CHOOSE k \in DOMAIN CharOrder : CharOrder[k] = c
    ELSE 0

RECURSIVE TextLess(_, _)
TextLess(a, b) ==
    IF b = <<>> THEN FALSE
    ELSE IF a = <<>> THEN TRUE
    ELSE IF Head(a) = Head(b) THEN TextLess(Tail(a), Tail(b))
    ELSE CharRank(Head(a)) < CharRank(Head(b))

ColumnValues(t, name) == {t.rows[r][ColIdx(t.columns, name)] : r \in DOMAIN t.rows}

\* Series.astype('category').cat.codes
CategoryCode(x, categories) == Cardinality({c \in categories : TextLess(c, x)})

CategoryColumns == <<MerchantType, GLAccount, CostCentre, TransactionCurrency>>

CodeSuffix == <<"_","c","o","d","e">>

YearLabel == <<"Y","e","a","r">>

MonthLabel == <<"M","o","n","t","h">>

YearMonthLabel == <<"Y","e","a","r","-","M","o","n","t","h">>

QuarterLabel == <<"Q","u","a","r","t","e","r">>

\* lines 183-196 on a non-empty accumulator whose dates are all Timestamps
Unify(t, m) ==
    LET d    == divisions_map_dict(m, Len(m))
        di   == ColIdx(t.columns, Division)
        ti   == ColIdx(t.columns, TransactionDate)
        r1   == [r \in DOMAIN t.rows |->
                   [t.rows[r] EXCEPT ![di] = ReplaceDivision(@, d)]]
        r2   == [r \in DOMAIN r1 |->
                   r1[r] \o <<YearOf(r1[r][ti]), MonthOf(r1[r][ti]),
                              YearMonthOf(r1[r][ti]), QuarterOf(r1[r][ti])>>]
        c2   == t.columns \o <<YearLabel, MonthLabel, YearMonthLabel, QuarterLabel>>
        yi   == Len(t.columns) + 1
        r3   == SelectSeq(r2, LAMBDA r : KeepYear(r[yi]))
        kept == [columns |-> c2, rows |-> r3]
        r4   == [r \in DOMAIN r3 |->
                   r3[r] \o [k \in DOMAIN CategoryColumns |->
                       CategoryCode(r3[r][ColIdx(c2, CategoryColumns[k])],
                                    ColumnValues(kept, CategoryColumns[k]))]]
        c4   == c2 \o [k \in DOMAIN CategoryColumns |-> CategoryColumns[k] \o CodeSuffix]
    IN [columns |-> c4, rows |-> r4]

\* output_df['Division'] on an accumulator that never received a table, or
\* x.year on a cell that is no Timestamp
UnifyFails(t) ==
    \/ t.columns = <<>>
    \/ \E r \in DOMAIN t.rows : ~IsDate(t.rows[r][ColIdx(t.columns, TransactionDate)])

\* pd.concat([output_df, dataset.df]); every validated table has the same
\* 17 labels in the same order
Concat(acc, t) ==
    IF acc.columns = <<>> THEN t
    ELSE [columns |-> acc.columns, rows |-> acc.rows \o t.rows]

EmptyFrame == [columns |-> <<>>, rows |-> <<>>]


(***************************************************************************)
(* profiles.py: Profile and __main__.                                      *)
(***************************************************************************)
AverageExpenditure ==
    <<"A","v","e","r","a","g","e"," ","E","x","p","e","n","d","i","t","u","r","e">>

StdevOfExpenditure ==
    <<"S","t","d","e","v"," ","o","f"," ","E","x","p","e","n","d","i","t","u","r","e">>

AverageMonthlyCV ==
    <<"A","v","e","r","a","g","e"," ","M","o","n","t","h","l","y"," ","E","x","p","e","n","d","i","t","u","r","e"," ","C","V">>

AverageQuarterlyCV ==
    <<"A","v","e","r","a","g","e"," ","Q","u","a","r","t","e","r","l","y"," ","E","x","p","e","n","d","i","t","u","r","e"," ","C","V">>

TotalCostCentres ==
    <<"T","o","t","a","l"," ","C","o","s","t"," ","C","e","n","t","r","e","s">>

CostCentreSkew ==
    <<"C","o","u","n","t"," ","b","y"," ","C","o","s","t"," ","C","e","n","t","r","e"," ","S","k","e","w">>

CostCentreKurtosis ==
    <<"C","o","u","n","t"," ","b","y"," ","C","o","s","t"," ","C","e","n","t","r","e"," ","K","u","r","t","o","s","i","s">>

TotalGLAccounts ==
    <<"T","o","t","a","l"," ","G","/","L"," ","A","c","c","o","u","n","t","s">>

GLAccountSkew ==
    <<"C","o","u","n","t"," ","b","y"," ","G","/","L"," ","A","c","c","o","u","n","t"," ","S","k","e","w">>

GLAccountKurtosis ==
    <<"C","o","u","n","t"," ","b","y"," ","G","/","L"," ","A","c","c","o","u","n","t"," ","K","u","r","t","o","s","i","s">>

TotalCurrencies ==
    <<"T","o","t","a","l"," ","C","u","r","r","e","n","c","i","e","s">>

TotalMerchants ==
    <<"T","o","t","a","l"," ","M","e","r","c","h","a","n","t","s">>

MerchantSkew ==
    <<"C","o","u","n","t"," ","b","y"," ","M","e","r","c","h","a","n","t"," ","S","k","e","w">>

MerchantKurtosis ==
    <<"C","o","u","n","t"," ","b","y"," ","M","e","r","c","h","a","n","t"," ","K","u","r","t","o","s","i","s">>

MerchantPrefix ==
    <<"M","e","r","c","h","a","n","t","_">>

CountSuffix ==
    <<"_","c","o","u","n","t">>

MerchantWord ==
    <<"M","e","r","c","h","a","n","t">>

\* 'Merchant_' + str(merchant) + '_count'
MerchantKey(merchant) == MerchantPrefix \o merchant \o CountSuffix

RowsWhere(t, name, value) ==
    SelectSeq(t.rows, LAMBDA r : r[ColIdx(t.columns, name)] = value)

ColumnSeq(t, name) == [r \in DOMAIN t.rows |-> t.rows[r][ColIdx(t.columns, name)]]

\* 'Batch-Transaction ID': 'count' per group of a groupby(name); a
\* categorical column yields a group for every category, present or not
GroupCounts(t, name, groups) ==
    [g \in groups |->
        Len(SelectSeq(RowsWhere(t, name, g),
                LAMBDA r : ~isna(r[ColIdx(t.columns, BatchTransactionID)])))]

\* summary_df[summary_df['Count'] > 0]
PresentGroups(cnt) == {g \in DOMAIN cnt : cnt[g] > 0}

\* sort_values(by='Count', ascending=False): the counts, largest first
RECURSIVE DescendingCounts(_, _)
DescendingCounts(S, cnt) ==
    IF S = {} THEN <<>>
    ELSE LET g == CHOOSE x \in S : \A y \in S : cnt[x] >= cnt[y]
         IN <<cnt[g]>> \o DescendingCounts(S \ {g}, cnt)

\* the groups, largest count first (the order among equal counts is the
\* sort's; nothing below reads it)
RECURSIVE DescendingGroups(_, _)
DescendingGroups(S, cnt) ==
    IF S = {} THEN <<>>
    ELSE LET g == CHOOSE x \in S : \A y \in S : cnt[x] >= cnt[y]
         IN <<g>> \o DescendingGroups(S \ {g}, cnt)

\* freq_list = freq_list + [idx] * count
RECURSIVE freq_list(_, _)
freq_list(counts, idx) ==
    IF idx >= Len(counts) THEN <<>>
    ELSE [k \in 1..counts[idx + 1] |-> idx] \o freq_list(counts, idx + 1)

\* a floating-point statistic of the libraries, kept as its argument
Stat(fn, arg) == [fn |-> fn, arg |-> arg]

\* groupby(name).agg mean of 'Transaction Amt.', per group
GroupAmounts(t, name) ==
    [g \in ColumnValues(t, name) |->
        [r \in DOMAIN RowsWhere(t, name, g) |->
            RowsWhere(t, name, g)[r][ColIdx(t.columns, TransactionAmt)]]]

\* faulty variant: the denominator counts the groups instead of summing them
CountTotal_Groups(cnt) == Cardinality(PresentGroups(cnt))

\* the denominator of the merchant frequencies: summary_df['Count'].sum()
CountTotal(cnt) == SumSeq(DescendingCounts(PresentGroups(cnt), cnt))

\* summary_df['Freq'] = summary_df['Count'] / summary_df['Count'].sum()
Freq(cnt, g) == [num |-> cnt[g], den |-> CountTotal(cnt)]

\* the 0 every merchant key starts with
ZeroFreq == [num |-> 0, den |-> 1]

\* faulty variant: the merchant keys are not seeded with 0
ProfileKeys_Unseeded(merchants) ==
    <<Division, AverageExpenditure, StdevOfExpenditure, AverageMonthlyCV,
      AverageQuarterlyCV, TotalCostCentres, CostCentreSkew,
      CostCentreKurtosis, TotalGLAccounts, GLAccountSkew,
      GLAccountKurtosis, TotalCurrencies, TotalMerchants, MerchantSkew,
      MerchantKurtosis>>

\* keys of a profile in insertion order
ProfileKeys(merchants) ==
    <<Division>> \o [k \in DOMAIN merchants |-> MerchantKey(merchants[k])]
    \o <<AverageExpenditure, StdevOfExpenditure, AverageMonthlyCV,
         AverageQuarterlyCV, TotalCostCentres, CostCentreSkew,
         CostCentreKurtosis, TotalGLAccounts, GLAccountSkew,
         GLAccountKurtosis, TotalCurrencies, TotalMerchants, MerchantSkew,
         MerchantKurtosis>>

\* the merchant keys __get_merchant_dist assigns: one per row of summary_df
MerchantDistKeys(cnt) == {MerchantKey(g) : g \in PresentGroups(cnt)}

\* the value __get_merchant_dist stores under a key it assigns
MerchantDistValue(key, cnt) ==
    Freq(cnt, CHOOSE g \in PresentGroups(cnt) : MerchantKey(g) = key)

\* Profile.__init__: t is the division's rows, categories the categories of
\* the three categorical columns of the whole table
Profile(t, division_name, merchants, categories) ==
    LET cc  == GroupCounts(t, CostCentre, categories[CostCentre])
        gl  == GroupCounts(t, GLAccount, categories[GLAccount])
        mt  == GroupCounts(t, MerchantType, categories[MerchantType])
        cur == GroupCounts(t, OriginalCurrency, ColumnValues(t, OriginalCurrency))
        fl(cnt) == freq_list(DescendingCounts(PresentGroups(cnt), cnt), 0)
        amounts == ColumnSeq(t, TransactionAmt)
        keys == ProfileKeys(merchants)
        seeded == {MerchantKey(merchants[k]) : k \in DOMAIN merchants}
        keyset == {keys[k] : k \in DOMAIN keys} \cup MerchantDistKeys(mt)
        extra  == MerchantDistKeys(mt) \ {keys[k] : k \in DOMAIN keys}
        value(key) ==
            CASE key \in MerchantDistKeys(mt) -> MerchantDistValue(key, mt)
              [] key = TotalMerchants -> Cardinality(PresentGroups(mt))
              [] key = MerchantSkew -> Stat("skew", fl(mt))
              [] key = MerchantKurtosis -> Stat("kurtosis", fl(mt))
              [] key = TotalCurrencies -> Cardinality(PresentGroups(cur))
              [] key = TotalGLAccounts -> Cardinality(PresentGroups(gl))
              [] key = GLAccountSkew -> Stat("skew", fl(gl))
              [] key = GLAccountKurtosis -> Stat("kurtosis", fl(gl))
              [] key = TotalCostCentres -> Cardinality(PresentGroups(cc))
              [] key = CostCentreSkew -> Stat("skew", fl(cc))
              [] key = CostCentreKurtosis -> Stat("kurtosis", fl(cc))
              [] key = AverageQuarterlyCV ->
                    Stat("variation", GroupAmounts(t, QuarterLabel))
              [] key = AverageMonthlyCV ->
                    Stat("variation", GroupAmounts(t, YearMonthLabel))
              [] key = StdevOfExpenditure -> Stat("std", amounts)
              [] key = AverageExpenditure -> Stat("average", amounts)
              [] key \in seeded -> ZeroFreq
              [] OTHER -> division_name
    IN [keys |-> keys \o DescendingGroups(extra, [x \in extra |-> 0]),
        val  |-> [key \in keyset |-> value(key)]]

\* df[name].value_counts().index.to_list()
value_counts_index(t, name, groups) ==
    LET cnt == [g \in groups |-> Len(RowsWhere(t, name, g))]
    IN DescendingGroups(groups, cnt)

\* the categories of the categorical columns of the pickled table
Categories(t) ==
    [c \in {CostCentre, GLAccount, MerchantType} |-> ColumnValues(t, c)]

\* pd.DataFrame(division_profiles): columns in order of first appearance
RECURSIVE FrameColumns(_, _)
FrameColumns(profiles, k) ==
    IF k = 0 THEN <<>>
    ELSE LET before == FrameColumns(profiles, k - 1)
         IN before \o SelectSeq(profiles[k].keys,
                LAMBDA key : \A j \in DOMAIN before : before[j] # key)

(***************************************************************************)
(* clustering.py __main__.                                                 *)
(***************************************************************************)
\* profile_df.drop('Division', axis=1).columns
DropDivision(cols) == SelectSeq(cols, LAMBDA c : c # Division)

\* the condition of the comprehension that picks the merchant columns
IsMerchantColumn(col) == Contains(MerchantWord, col)

FixedFeatures ==
    <<AverageExpenditure, StdevOfExpenditure, AverageMonthlyCV, AverageQuarterlyCV>>

\* test_cols
test_cols(cols) == FixedFeatures \o SelectSeq(DropDivision(cols), IsMerchantColumn)


(***************************************************************************)
(* Inputs: the raw reports and the division mapping.                       *)
(***************************************************************************)
MaxFiles == 2

MaxRows == 2

T_CAD == <<"C","A","D">>

\* a raw row in canonical column order
RawRow(division, batch_id, tdate, posting, mname, amt, mtype, centre, purpose) ==
    <<division, batch_id, tdate, posting, mname, amt, T_CAD, amt, T_CAD,
      <<"4","0">>, <<"g">>, centre, <<"c">>, mtype, <<"t">>, purpose>>

D_ab == <<"a","b">>

D_AB == <<"A","B">>

D_cd == <<" ","c"," ","d">>

Y2009 == <<"2","0","0","9","-","1","2">>

Y2010 == <<"2","0","1","0","-","0","5">>

Y2010b == <<"2","0","1","0","-","0","7">>

Y2011 == <<"2","0","1","1","-","0","2">>

Y2012 == <<"2","0","1","2","-","1","1">>

RowPlain ==
    RawRow(D_ab, <<"1">>, Y2011, Y2011, <<"m">>, <<"5">>, <<"R">>, <<"k">>, <<"p">>)

RowNoPurpose ==
    RawRow(D_cd, <<"2">>, Y2012, Y2012, <<"m">>, <<"7">>, <<"S">>, <<"k">>, NaN)

RowSubtotal ==
    RawRow(NaN, NaN, NaN, NaN, NaN, <<"9">>, NaN, NaN, NaN)

RowNoDivision ==
    RawRow(NaN, <<"4">>, Y2011, Y2011, <<"m">>, <<"5">>, NaN, NaN, <<"p">>)

RowNoBatch ==
    RawRow(D_ab, NaN, Y2011, Y2011, <<"m">>, <<"5">>, <<"R">>, <<"k">>, <<"p">>)

RowPostingOnly ==
    RawRow(D_AB, <<"6">>, NaN, Y2010b, <<"m">>, <<"5">>, <<"S">>, <<"k">>, <<"p">>)

RowNoDates ==
    RawRow(D_ab, <<"7">>, NaN, NaN, <<"m">>, <<"5">>, <<"R">>, <<"k">>, <<"p">>)

Row2010 ==
    RawRow(D_ab, <<"8">>, Y2010, Y2011, <<"m">>, <<"3">>, <<"R">>, <<"k">>, <<"p">>)

RowNoMerchantName ==
    RawRow(D_ab, <<"9">>, Y2011, Y2011, NaN, <<"5">>, <<"R">>, <<"k">>, <<"p">>)

Row2009 ==
    RawRow(D_cd, <<"3">>, Y2009, Y2009, <<"m">>, <<"2">>, <<"T">>, <<"j">>, <<"p">>)

RowPool ==
    {RowPlain, RowNoPurpose, RowSubtotal, RowNoDivision, RowNoBatch,
     RowPostingOnly, RowNoDates, Row2010, RowNoMerchantName, Row2009}

SeqsUpTo(S, n) == UNION {[1..k -> S] : k \in 0..n}

FileLetters == <<"a","b","c","d","e","f">>

\* the k-th report of the folder
FileName(k) == <<FileLetters[k], ".", "x", "l", "s">>

Report(k, t) == [name |-> FileName(k), df |-> t]

D_Ab == <<"A","b">>

D_CD == <<"C"," ","D">>

D_Missing == <<"M","i","s","s","i","n","g">>

D_Ef == <<"E","f">>

\* contents of divisions_map.csv
MapPool ==
    { <<>>,
      <<[from |-> D_Ab, to |-> D_CD], [from |-> D_CD, to |-> D_Ef]>>,
      <<[from |-> D_Missing, to |-> D_Ab], [from |-> D_CD, to |-> D_CD]>>,
      <<[from |-> D_Ab, to |-> D_CD], [from |-> D_Ab, to |-> D_Ef]>> }

\* raw labels that are not canonical
L_Unnamed5 == <<"U","n","n","a","m","e","d",":"," ","5">>

L_Amt == <<"A","m","t">>

L_D == <<"D">>

L_zz == <<"z","z">>

L_Cur == <<"C","u","r">>

L_Purp == <<"P","u","r","p">>

LabelPool ==
    {LongText, ExpTypeDesc, L_Unnamed5, L_Amt, L_D, L_zz, L_Cur, L_Purp}

\* after how many columns an extra column may stand
InsertAfter == {0, 3, 16}

InsertCol(s, k, x) == SubSeq(s, 1, k) \o <<x>> \o SubSeq(s, k + 1, Len(s))

Reverse(s) == [k \in DOMAIN s |-> s[Len(s) + 1 - k]]

\* a one-row report whose header is the canonical one with at most one label
\* replaced, at most one extra column, and possibly in reverse order
RawVariant(rep, lab, ins, extra, rev) ==
    LET c1 == IF rep = 0 THEN column_names ELSE [column_names EXCEPT ![rep] = lab]
        c2 == IF ins < 0 THEN c1 ELSE InsertCol(c1, ins, extra)
        r2 == IF ins < 0 THEN RowPlain ELSE InsertCol(RowPlain, ins, <<"x">>)
    IN [columns |-> IF rev THEN Reverse(c2) ELSE c2,
        rows |-> <<IF rev THEN Reverse(r2) ELSE r2>>]

CanonicalTable(rows) == [columns |-> column_names, rows |-> rows]

\* reports of the multi-file runs
TablePool ==
    { CanonicalTable(<<RowPlain, Row2010>>),
      CanonicalTable(<<RowNoPurpose>>),
      CanonicalTable(<<RowNoDivision, RowSubtotal>>),
      CanonicalTable(<<RowNoBatch>>),
      CanonicalTable(<<Row2009, RowPostingOnly>>),
      RawVariant(0, L_D, 5, L_Amt, FALSE) }

(***************************************************************************)
(* The three scripts, run one after the other.                             *)
(***************************************************************************)
InitRest ==
    /\ pc = "loop"
    /\ i = 0
    /\ df = EmptyFrame
    /\ output_df = EmptyFrame
    /\ todo = <<>>
    /\ division_profiles = <<>>
    /\ profile_df = EmptyFrame
    /\ cluster_data = EmptyFrame
    /\ fit_input = EmptyFrame

\* several reports, each from TablePool
Init ==
    /\ \E ts \in SeqsUpTo(TablePool, MaxFiles) :
           files = [k \in DOMAIN ts |-> Report(k, ts[k])]
    /\ divisions_map \in MapPool
    /\ InitRest

\* one report with a canonical header and up to MaxRows rows
InitRows ==
    /\ \E rows \in SeqsUpTo(RowPool, MaxRows) :
           files = <<Report(1, CanonicalTable(rows))>>
    /\ divisions_map = <<>>
    /\ InitRest

\* one report with one row and a header that needs reconciling
InitRecon ==
    /\ \E rep \in 0..Len(column_names), lab \in LabelPool,
          ins \in InsertAfter \cup {-1}, extra \in LabelPool, rev \in BOOLEAN :
           /\ rep = 0 => lab = LongText
           /\ ins < 0 => extra = LongText
           /\ rev => ins < 0
           /\ (rep # 0 /\ ins >= 0) => lab # extra
           /\ files = <<Report(1, RawVariant(rep, lab, ins, extra, rev))>>
    /\ divisions_map = <<>>
    /\ InitRest

\* dataset = Dataset(folder_path, file_name)
NewDataset ==
    /\ pc = "loop"
    /\ i < Len(files)
    /\ df' = files[i + 1].df
    /\ pc' = "loaded"
    /\ UNCHANGED <<files, divisions_map, i, output_df, todo, division_profiles,
                   profile_df, cluster_data, fit_input>>

\* dataset.clean_data()
CleanData ==
    /\ pc = "loaded"
    /\ LET res == clean_data(df, files[i + 1].name) IN
         /\ df' = [columns |-> res.columns, rows |-> res.rows]
         /\ pc' = IF res.err = "" THEN "cleaned" ELSE "crashed_clean"
    /\ UNCHANGED <<files, divisions_map, i, output_df, todo, division_profiles,
                   profile_df, cluster_data, fit_input>>

\* dataset.validate_data()
ValidateData ==
    /\ pc = "cleaned"
    /\ pc' = IF validate_data(df) THEN "validated" ELSE "crashed_validate"
    /\ UNCHANGED <<files, divisions_map, i, df, output_df, todo,
                   division_profiles, profile_df, cluster_data, fit_input>>

\* output_df = pd.concat([output_df, dataset.df]); del dataset
ConcatDataset ==
    /\ pc = "validated"
    /\ output_df' = Concat(output_df, df)
    /\ df' = EmptyFrame
    /\ i' = i + 1
    /\ pc' = "loop"
    /\ UNCHANGED <<files, divisions_map, todo, division_profiles, profile_df,
                   cluster_data, fit_input>>

\* the rest of clean_data.py after the loop, up to to_pickle
SaveUnified ==
    /\ pc = "loop"
    /\ i = Len(files)
    /\ IF UnifyFails(output_df)
       THEN pc' = "crashed_unify" /\ output_df' = output_df
       ELSE pc' = "saved" /\ output_df' = Unify(output_df, divisions_map)
    /\ UNCHANGED <<files, divisions_map, i, df, todo, division_profiles,
                   profile_df, cluster_data, fit_input>>

\* profiles.py: read the pickle, list the divisions
LoadUnified ==
    /\ pc = "saved"
    /\ todo' = value_counts_index(output_df, Division, ColumnValues(output_df, Division))
    /\ division_profiles' = <<>>
    /\ pc' = "profiling"
    /\ UNCHANGED <<files, divisions_map, i, df, output_df, profile_df,
                   cluster_data, fit_input>>

\* one turn of the loop over the divisions
BuildProfile ==
    /\ pc = "profiling"
    /\ todo # <<>>
    /\ LET division    == Head(todo)
           division_df == [columns |-> output_df.columns,
                           rows |-> RowsWhere(output_df, Division, division)]
           merchants   == value_counts_index(output_df, MerchantType,
                              ColumnValues(output_df, MerchantType))
       IN division_profiles' =
              Append(division_profiles,
                     Profile(division_df, division, merchants, Categories(output_df)))
    /\ todo' = Tail(todo)
    /\ UNCHANGED <<pc, files, divisions_map, i, df, output_df, profile_df,
                   cluster_data, fit_input>>

\* profiles_df = pd.DataFrame(division_profiles); to_pickle
SaveProfiles ==
    /\ pc = "profiling"
    /\ todo = <<>>
    /\ LET cols == FrameColumns(division_profiles, Len(division_profiles)) IN
         profile_df' =
            [columns |-> cols,
             rows |-> [r \in DOMAIN division_profiles |->
                         [k \in DOMAIN cols |->
                            IF cols[k] \in DOMAIN division_profiles[r].val
                            THEN division_profiles[r].val[cols[k]] ELSE NaN]]]
    /\ pc' = "profiles_saved"
    /\ UNCHANGED <<files, divisions_map, i, df, output_df, todo,
                   division_profiles, cluster_data, fit_input>>

\* clustering.py up to cluster_data = cluster_data[test_cols]
SelectFeatures ==
    /\ pc = "profiles_saved"
    /\ LET cols == profile_df.columns
           tc   == test_cols(cols)
           rest == DropDivision(cols)
       IN IF \/ Positions(cols, Division) = <<>>
             \/ \E k \in DOMAIN tc : Positions(rest, tc[k]) = <<>>
          THEN pc' = "crashed_cluster" /\ cluster_data' = cluster_data
          ELSE /\ pc' = "selected"
               /\ cluster_data' =
                    [columns |-> tc,
                     rows |-> [r \in DOMAIN profile_df.rows |->
                                 [k \in DOMAIN tc |->
                                    profile_df.rows[r][ColIdx(cols, tc[k])]]]]
    /\ UNCHANGED <<files, divisions_map, i, df, output_df, todo,
                   division_profiles, profile_df, fit_input>>

\* clusterer.fit(cluster_data)
Fit ==
    /\ pc = "selected"
    /\ fit_input' = cluster_data
    /\ pc' = "fitted"
    /\ UNCHANGED <<files, divisions_map, i, df, output_df, todo,
                   division_profiles, profile_df, cluster_data>>

Next ==
    \/ NewDataset
    \/ CleanData
    \/ ValidateData
    \/ ConcatDataset
    \/ SaveUnified
    \/ LoadUnified
    \/ BuildProfile
    \/ SaveProfiles
    \/ SelectFeatures
    \/ Fit

Spec == Init /\ [][Next]_vars

SpecRows == InitRows /\ [][Next]_vars

SpecRecon == InitRecon /\ [][Next]_vars


(***************************************************************************)
(* Properties.                                                             *)
(***************************************************************************)
\* number of distinct characters two texts share
SharedChars(a, b) ==
    Cardinality({c \in CharSet(a) : \E k \in DOMAIN b : b[k] = c})

\* the raw header of the report in hand
RawHeader == files[1].df.columns

\* C1: whenever clean_data completes, the reconciled table has exactly the 16
\* canonical columns, each once, in canonical order (Source follows them).
C1_ExactlyCanonicalColumns ==
    pc = "cleaned" => SubSeq(df.columns, 1, Len(df.columns) - 1) = column_names

\* C2: for every label clean_data has looked up, closest_match returns a
\* canonical name with the maximal number of shared characters, the first
\* such in canonical order, and 'Division' when no canonical name shares a
\* character.
C2_ClosestMatchIsFirstMaximum ==
    pc \in {"cleaned", "crashed_clean"} =>
    \A j \in {x \in DOMAIN RawHeader : ~IsCanonical(RawHeader[x])} :
        LET L == RawHeader[j]
            m == closest_match(L, column_names)
        IN /\ \E k \in DOMAIN column_names :
                /\ column_names[k] = m
                /\ \A h \in DOMAIN column_names :
                      SharedChars(L, column_names[h]) <= SharedChars(L, m)
                /\ \A h \in 1..(k - 1) :
                      SharedChars(L, column_names[h]) < SharedChars(L, m)
           /\ (\A h \in DOMAIN column_names : SharedChars(L, column_names[h]) = 0)
                 => m = <<"D","i","v","i","s","i","o","n">>

\* a report was cleaned whose header holds a label sharing no character with
\* any canonical name and a label that ties between canonical names
C2_Witness ==
    /\ pc = "cleaned"
    /\ \E j \in DOMAIN RawHeader : RawHeader[j] = L_zz
    /\ \E j \in DOMAIN RawHeader : RawHeader[j] = L_Amt
    /\ SharedChars(L_Amt, TransactionAmt) = SharedChars(L_Amt, OriginalAmount)

\* labels that the columns labelled L in the raw header carry after the drop
\* and the rename steps (none when the column was dropped)
LabelsAfterRename(raw, L) ==
    LET kept == DropUnnamed(raw).columns
        p    == Positions(kept, L)
    IN {RenamedColumns(raw)[p[k]] : k \in DOMAIN p}

NoneSharesMore(L, C) ==
    /\ SharedChars(L, C) >= 1
    /\ \A h \in DOMAIN column_names :
          SharedChars(L, column_names[h]) <= SharedChars(L, C)

NoEarlierSharesAsMany(L, C) ==
    \A k \in DOMAIN column_names :
        column_names[k] = C =>
            \A h \in 1..(k - 1) : SharedChars(L, column_names[h]) < SharedChars(L, C)

\* C3 as stated: a non-canonical raw label L is renamed to every canonical
\* name C that shares a character with it and that no other name beats.
C3_RenamedToAnyMaximum ==
    pc = "cleaned" =>
        \A j \in DOMAIN RawHeader : \A k \in DOMAIN column_names :
            (~IsCanonical(RawHeader[j]) /\ NoneSharesMore(RawHeader[j], column_names[k]))
                => LabelsAfterRename(files[1].df, RawHeader[j]) = {column_names[k]}

\* C3 amended: a non-canonical raw label L that is neither dropped as unnamed
\* nor one of the two exactly renamed labels is relabelled by the rename loop
\* to the canonical name C that shares a character with it, that no name
\* beats, and that no earlier name equals in shared characters.
C3_RenamedToFirstMaximum ==
    pc \in {"cleaned", "crashed_clean"} =>
        \A j \in DOMAIN RawHeader : \A k \in DOMAIN column_names :
            LET L == RawHeader[j] IN
            (/\ ~IsCanonical(L)
             /\ ~Contains(<<"u","n","n","a","m","e","d">>, Lower(L))
             /\ L # <<"L","o","n","g"," ","T","e","x","t">>
             /\ L # <<"E","x","p"," ","T","y","p","e"," ","D","e","s","c">>
             /\ NoneSharesMore(L, column_names[k])
             /\ NoEarlierSharesAsMany(L, column_names[k]))
                => LabelsAfterRename(files[1].df, L) = {column_names[k]}

\* 'Amt' stood for 'Transaction Amt.', ties with 'Original Amount', and the
\* cleaned table carries the first of the two in its place
C3_Witness ==
    /\ pc = "cleaned"
    /\ RawHeader[6] = L_Amt
    /\ NoneSharesMore(L_Amt, OriginalAmount)
    /\ df.columns[6] = TransactionAmt
    /\ Len(df.columns) = 17

BatchOf(row) == row[2]

\* C4: a retained row whose raw Division was missing and whose
\* Batch-Transaction ID was present has Division 'MISSING'.
C4_MissingDivisionLiteral ==
    pc = "cleaned" =>
        \A r \in DOMAIN df.rows : \A q \in DOMAIN files[1].df.rows :
            LET raw == files[1].df.rows[q] IN
            (isna(raw[1]) /\ ~isna(raw[2]) /\ BatchOf(df.rows[r]) = raw[2])
                => df.rows[r][1] = <<"M","I","S","S","I","N","G">>

\* the raw rows of which at least one of Division, Batch-Transaction ID is
\* present
RetainedRaw(rows) == SelectSeq(rows, LAMBDA r : ~isna(r[1]) \/ ~isna(r[2]))

\* the cells of a row that no imputation rule writes
Untouched(row) == <<row[2], row[4], row[5], row[6], row[15]>>

\* C5: clean_data keeps exactly the rows with Division or Batch-Transaction
\* ID present, once each and in their order.
C5_DropsExactlySubtotals ==
    pc = "cleaned" =>
        LET kept == RetainedRaw(files[1].df.rows) IN
        /\ Len(df.rows) = Len(kept)
        /\ \A r \in DOMAIN df.rows :
              Untouched(df.rows[r]) = Untouched(kept[r])

\* a subtotal row was dropped while a row with only the batch id missing and
\* a row with only the division missing were kept
C5_Witness ==
    /\ pc = "cleaned"
    /\ \E q \in DOMAIN files[1].df.rows : files[1].df.rows[q] = RowSubtotal
    /\ Len(files[1].df.rows) = 2
    /\ Len(df.rows) = 1
    /\ isna(df.rows[1][2])

NoMissingCell(t) ==
    \A r \in DOMAIN t.rows : \A j \in DOMAIN t.rows[r] : t.rows[r][j] # <<"NaN">>

\* C6: a table is appended only with no missing cell and 17 columns; any
\* other cleaned table ends the run in validate_data, with the accumulator
\* as it was and no later report touched.
C6_AppendOnlyValidated ==
    [][/\ (pc = "cleaned" /\ ~(NoMissingCell(df) /\ Len(df.columns) = 17))
            => (pc' = "crashed_validate" /\ output_df' = output_df /\ i' = i)
       /\ pc # "crashed_validate"
       /\ (pc = "validated" /\ pc' = "loop")
            => /\ NoMissingCell(df) /\ Len(df.columns) = 17
               /\ output_df'.rows = output_df.rows \o df.rows
       /\ (pc \in {"loop", "loaded", "cleaned"} /\ pc' # "saved")
            => output_df' = output_df]_vars

\* the first report was appended, the second failed validation
C6_Witness ==
    /\ pc = "crashed_validate"
    /\ i = 1
    /\ Len(files) = 2
    /\ output_df.rows # <<>>
    /\ ~NoMissingCell(df)

\* C7: the saved table has no row of year 2010 and holds, in order, every
\* accumulated row of another year.
C7_Removes2010Only ==
    [][(pc = "loop" /\ pc' = "saved") =>
          LET kept == SelectSeq(output_df.rows, LAMBDA r : SubSeq(r[3], 1, 4) # <<"2","0","1","0">>)
          IN /\ \A r \in DOMAIN output_df'.rows :
                    /\ output_df'.rows[r][18] # 2010
                    /\ SubSeq(output_df'.rows[r][3], 1, 4) # <<"2","0","1","0">>
             /\ Len(output_df'.rows) = Len(kept)
             /\ \A r \in DOMAIN kept :
                    SubSeq(output_df'.rows[r], 2, 17) = SubSeq(kept[r], 2, 17)]_vars

\* a run that accumulated rows of 2009, 2010 and 2011 and saved two of them
C7_Witness ==
    /\ pc = "saved"
    /\ Len(files) = 2
    /\ files[1].df.rows = <<RowPlain, Row2010>>
    /\ files[2].df.rows = <<Row2009, RowPostingOnly>>
    /\ Len(output_df.rows) = 2

IsMerchantCountKey(key) ==
    /\ Len(key) >= 15
    /\ SubSeq(key, 1, 9) = <<"M","e","r","c","h","a","n","t","_">>
    /\ SubSeq(key, Len(key) - 5, Len(key)) = <<"_","c","o","u","n","t">>

MerchantCountKeys(p) == {key \in DOMAIN p.val : IsMerchantCountKey(key)}

RECURSIVE FractionSum(_, _)
FractionSum(S, val) ==
    IF S = {} THEN [num |-> 0, den |-> 1]
    ELSE LET x == CHOOSE y \in S : TRUE
             rest == FractionSum(S \ {x}, val)
         IN [num |-> val[x].num * rest.den + rest.num * val[x].den,
             den |-> val[x].den * rest.den]

\* rows of the saved table of a division, and those of one merchant type
RowsOf(division) == SelectSeq(output_df.rows, LAMBDA r : r[1] = division)

RowsOfType(division, m) == SelectSeq(RowsOf(division), LAMBDA r : r[14] = m)

SavedMerchantTypes == {output_df.rows[r][14] : r \in DOMAIN output_df.rows}

\* C8: the merchant frequencies of a profile sum to 1, each being the
\* type's row count over the division's row count.
C8_FrequenciesSumToOne ==
    \A k \in DOMAIN division_profiles :
        LET p == division_profiles[k]
            s == FractionSum(MerchantCountKeys(p), p.val)
            d == p.val[<<"D","i","v","i","s","i","o","n">>]
        IN /\ s.den > 0
           /\ s.num = s.den
           /\ \A m \in SavedMerchantTypes :
                 RowsOfType(d, m) # <<>> =>
                    LET v == p.val[<<"M","e","r","c","h","a","n","t","_">> \o m \o <<"_","c","o","u","n","t">>]
                    IN v.num * Len(RowsOf(d)) = Len(RowsOfType(d, m)) * v.den

\* a division with two rows of two merchant types got one half for each
C8_Witness ==
    \E k \in DOMAIN division_profiles :
        /\ Cardinality({key \in MerchantCountKeys(division_profiles[k]) :
                          division_profiles[k].val[key] = [num |-> 1, den |-> 2]}) = 2

\* C9: every profile has a merchant key for each merchant type of the saved
\* table and for no other, 0 for a type absent from the division and the
\* frequency for a present one (1 when the division has one type only).
C9_SameMerchantKeys ==
    \A k \in DOMAIN division_profiles :
        LET p == division_profiles[k]
            d == p.val[<<"D","i","v","i","s","i","o","n">>]
        IN /\ MerchantCountKeys(p) =
                {<<"M","e","r","c","h","a","n","t","_">> \o m \o <<"_","c","o","u","n","t">> :
                    m \in SavedMerchantTypes}
           /\ \A m \in SavedMerchantTypes :
                 LET v == p.val[<<"M","e","r","c","h","a","n","t","_">> \o m \o <<"_","c","o","u","n","t">>]
                     n == Len(RowsOfType(d, m))
                 IN /\ v.den > 0
                    /\ n = 0 => v.num = 0
                    /\ n > 0 => v.num * Len(RowsOf(d)) = n * v.den
                    /\ (n > 0 /\ n = Len(RowsOf(d))) => v.num = v.den

\* two divisions of one merchant type each: each profile has a 1 and a 0
C9_Witness ==
    /\ Len(division_profiles) = 2
    /\ \A k \in DOMAIN division_profiles :
          LET p == division_profiles[k] IN
          /\ \E key \in MerchantCountKeys(p) : p.val[key].num = 0
          /\ \E key \in MerchantCountKeys(p) : p.val[key] = [num |-> 1, den |-> 1]

\* C10: the clusterer's columns are the four expenditure features and the
\* Merchant_<type>_count columns, and nothing else.
C10_FeatureColumns ==
    pc = "selected" =>
        {cluster_data.columns[k] : k \in DOMAIN cluster_data.columns} =
            {<<"A","v","e","r","a","g","e"," ","E","x","p","e","n","d","i","t","u","r","e">>,
             <<"S","t","d","e","v"," ","o","f"," ","E","x","p","e","n","d","i","t","u","r","e">>,
             <<"A","v","e","r","a","g","e"," ","M","o","n","t","h","l","y"," ","E","x","p","e","n","d","i","t","u","r","e"," ","C","V">>,
             <<"A","v","e","r","a","g","e"," ","Q","u","a","r","t","e","r","l","y"," ","E","x","p","e","n","d","i","t","u","r","e"," ","C","V">>}
            \cup {profile_df.columns[k] : k \in
                    {j \in DOMAIN profile_df.columns : IsMerchantCountKey(profile_df.columns[j])}}

\* sum of the cells of column k of a frame of fractions
ColumnSum(t, k) ==
    FractionSum(DOMAIN t.rows, [r \in DOMAIN t.rows |-> t.rows[r][k]])

\* C11: the matrix given to the fit step is standardized: each of its
\* Merchant_<type>_count columns has mean zero over the divisions.
C11_FitInputStandardized ==
    pc = "fitted" =>
        \A k \in DOMAIN fit_input.columns :
            IsMerchantCountKey(fit_input.columns[k]) => ColumnSum(fit_input, k).num = 0

\* the reconciled part of a cleaned table: all but the trailing Source column
Reconciled(t) ==
    [columns |-> SubSeq(t.columns, 1, Len(t.columns) - 1),
     rows |-> [r \in DOMAIN t.rows |-> SubSeq(t.rows[r], 1, Len(t.rows[r]) - 1)]]

\* C12: reconciling a table whose header is the 16 canonical names in
\* canonical order succeeds and changes no label, drops no column and
\* reorders nothing; and reconciling the reconciled part of any cleaned
\* table succeeds and gives that table back.
C12_ReconcileIdempotent ==
    /\ (pc \in {"cleaned", "crashed_clean"} /\ RawHeader = column_names) =>
          /\ pc = "cleaned"
          /\ Reconcile(files[1].df) =
                [err |-> "", columns |-> RawHeader, rows |-> files[1].df.rows]
          /\ Reconciled(df).columns = RawHeader
    /\ pc = "cleaned" =>
          Reconcile(Reconciled(df)) =
              [err |-> "", columns |-> Reconciled(df).columns,
               rows |-> Reconciled(df).rows]

\* a report with the canonical header was cleaned and kept its 16 columns
C12_Witness ==
    /\ pc = "cleaned"
    /\ RawHeader = column_names
    /\ Reconciled(df).columns = column_names
    /\ Len(df.rows) = 1

\* the entries of divisions_map.csv whose two cells differ
RenameEntries == {k \in DOMAIN divisions_map : divisions_map[k].from # divisions_map[k].to}

\* no 'from' stands in two such entries
IsMapping ==
    \A j \in RenameEntries : \A k \in RenameEntries :
        divisions_map[j].from = divisions_map[k].from => j = k

KeptRawPositions(raw) ==
    SelectSeq(Indices(Len(raw.columns)),
              LAMBDA j : ~Contains(<<"u","n","n","a","m","e","d">>, Lower(raw.columns[j])))

\* C14: if no column is labelled 'Transaction Currency' after the renames,
\* the repair relabels the column that stood at index 6 (0-based) of the raw
\* header, before the unnamed columns were dropped, and no other column; if
\* the label is present the repair changes nothing.
C14_RepairsRawIndexSix ==
    pc \in {"cleaned", "crashed_clean"} =>
        LET raw  == files[1].df
            keep == KeptRawPositions(raw)
            c    == RenamedColumns(raw)
            e    == RepairCurrency(c)
        IN /\ ~NeedsRepair(c) => e = c
           /\ NeedsRepair(c) =>
                 \A j \in DOMAIN c :
                     e[j] = IF keep[j] = 7
                            THEN <<"T","r","a","n","s","a","c","t","i","o","n"," ",
                                   "C","u","r","r","e","n","c","y">>
                            ELSE c[j]

=============================================================================
